---- MODULE Spec2Model ----
(***************************************************************************)
(* PrismLock: a time-locked ETH vault that stores each account's stake as  *)
(* an encrypted amount (contract PrismLock, src/unnamed/part_001).         *)
(*                                                                         *)
(* One action per external function of the contract, plus the passing of   *)
(* block time and the return of the recipient's receive callback that      *)
(* finalizeWithdrawal enters through msg.sender.call{value: ...}("").      *)
(* A call that reverts changes nothing but the outcome reported to the     *)
(* caller (lastCall).                                                      *)
(***************************************************************************)
EXTENDS Integers, Sequences, FiniteSets, TLC

VARIABLES
    stakes,               \* mapping(address => StakeData) _stakes
    balance,              \* native balance of every address, the vault included
    now,                  \* block.timestamp
    publiclyDecryptable,  \* handles passed to FHE.makePubliclyDecryptable
    allowed,              \* <<handle, address>> pairs granted by FHE.allow / allowThis
    deposited,            \* history: msg.value of the stake that made the record
    requestedAt,          \* history: block.timestamp of the successful requestWithdrawal
    frames,               \* the finalizeWithdrawal calls suspended in their transfer
    lastCall              \* outcome of the call that returned last

vars == <<stakes, balance, now, publiclyDecryptable, allowed, deposited,
          requestedAt, frames, lastCall>>

(***************************************************************************)
(* Bounds and inputs                                                       *)
(***************************************************************************)
\* type(uint128).max, scaled down so that a deposit above it is an input.
MaxUint128 == 2

\* Block times run over the days after deployment, with the last second of
\* the first day: the instants just before and exactly at an unlock time.
MaxDays == 1

\* Depth of finalizeWithdrawal calls nested through the transfer callback.
MaxDepth == 2

\* block.timestamp at deployment.
Genesis == 1700000000

MIN_LOCK_DURATION == 86400

MAX_LOCK_DURATION == 31536000

\* address(this)
Vault == "PrismLock"

\* alice is an externally owned account; mallory is a contract, whose code
\* runs when it receives value.
Accounts == {"alice", "mallory"}

Contracts == {"mallory"}

InitialBalance == MaxUint128 + 1

\* msg.value: nothing, the least and the greatest amount that fits, and one more.
Values == {0, 1, MaxUint128, MaxUint128 + 1}

DurationInputs == {MIN_LOCK_DURATION - 1, MIN_LOCK_DURATION,
                   MAX_LOCK_DURATION, MAX_LOCK_DURATION + 1}

Times == {Genesis, Genesis + MIN_LOCK_DURATION - 1} \cup
         {Genesis + k * MIN_LOCK_DURATION : k \in 1..MaxDays}

NotRequested == 0

(***************************************************************************)
(* The FHE library: handles, trivial encryption, proofs of decryption      *)
(***************************************************************************)
\* bytes32(0)
ZeroHandle == <<"bytes32(0)", 0>>

\* FHE.asEuint128(clear): the handle of a trivially encrypted value is
\* addressed by its content.
asEuint128(clear) == <<"euint128", clear>>

\* FHE.toBytes32(handle): unwraps the user-defined value type.
toBytes32(handle) == handle

\* The cleartext the decryption oracle returns for a handle.
Decrypt(handle) == handle[2]

\* abi.encode(uint128): one 32-byte word.
AbiEncode(v) == <<v>>

\* A decryption proof: the handles and cleartexts the oracle signed, and
\* whether its signatures verify.
Proof(handles, cleartexts, signed) ==
    [handles |-> handles, cleartexts |-> cleartexts, signed |-> signed]

\* The oracle signs only the true cleartext of publicly decryptable handles.
OracleProofs(pd) == {Proof(<<h>>, AbiEncode(Decrypt(h)), TRUE) : h \in pd}

TamperedProofs(pd) == {Proof(<<h>>, AbiEncode(Decrypt(h)), FALSE) : h \in pd}

\* The oracle also signs requests for several publicly decryptable handles at
\* once, and for none: proofs whose handle list is not one handle.
BatchProofs(pd) ==
    {Proof(<<hg[1], hg[2]>>,
           AbiEncode(Decrypt(hg[1])) \o AbiEncode(Decrypt(hg[2])), TRUE) :
        hg \in {x \in pd \X pd : Decrypt(x[1]) < Decrypt(x[2])}}
        \cup {Proof(<<>>, <<>>, TRUE)}

ProofInputs(pd) ==
    OracleProofs(pd) \cup TamperedProofs(pd) \cup BatchProofs(pd)
        \cup {Proof(<<ZeroHandle>>, AbiEncode(0), FALSE)}

CleartextInputs ==
    {AbiEncode(v) : v \in {1, MaxUint128}}
        \cup {<<>>, AbiEncode(1) \o AbiEncode(MaxUint128)}

\* FHE.checkSignatures(handles, cleartexts, proof): passes iff the proof's
\* signatures verify over exactly these handles and cleartexts.
checkSignatures(handles, cleartexts, proof) ==
    /\ proof.signed
    /\ proof.handles = handles
    /\ proof.cleartexts = cleartexts

(***************************************************************************)
(* The contract's data                                                     *)
(***************************************************************************)
\* The zero value of StakeData: what an unset or deleted mapping entry reads.
NoStake ==
    [encryptedAmount |-> ZeroHandle, lockDuration |-> 0, startTimestamp |-> 0,
     withdrawalRequested |-> FALSE, exists |-> FALSE]

\* Variant of ToUint128: the cast drops the top of the range.
ToUint128_Narrow(v) == v % MaxUint128

\* uint128(msg.value)
ToUint128(v) == v % (MaxUint128 + 1)

\* abi.decode(abiEncodedCleartexts, (uint128)); reverts on a wider word.
AbiDecodeUint128(bytes) == bytes[1]

AbiDecodes(bytes) == Len(bytes) >= 1 /\ bytes[1] <= MaxUint128

Returned(op, sender, status, logs) ==
    [op |-> op, sender |-> sender, status |-> status, logs |-> logs]

NoCall == Returned("none", Vault, "ok", <<>>)

\* The state a revert of the suspended call restores.
Snapshot ==
    [stakes |-> stakes, balance |-> balance,
     publiclyDecryptable |-> publiclyDecryptable, allowed |-> allowed,
     deposited |-> deposited, requestedAt |-> requestedAt]

\* A finalizeWithdrawal suspended in msg.sender.call.
Frame(sender, amount, handle, saved) ==
    [sender |-> sender, amount |-> amount, handle |-> handle, saved |-> saved]

\* A transaction comes from any account; while a transfer callback runs,
\* only code (a contract) can call.
CanCall(a) == frames = <<>> \/ a \in Contracts

Init ==
    /\ stakes = [a \in Accounts |-> NoStake]
    /\ balance = [a \in Accounts \cup {Vault} |->
                    IF a = Vault THEN 0 ELSE InitialBalance]
    /\ now = Genesis
    /\ publiclyDecryptable = {}
    /\ allowed = {}
    /\ deposited = [a \in Accounts |-> 0]
    /\ requestedAt = [a \in Accounts |-> NotRequested]
    /\ frames = <<>>
    /\ lastCall = NoCall

\* Block time advances between transactions.
Tick(t) ==
    /\ frames = <<>>
    /\ t > now
    /\ now' = t
    /\ UNCHANGED <<stakes, balance, publiclyDecryptable, allowed, deposited,
                   requestedAt, frames, lastCall>>

(***************************************************************************)
(* stake                                                                   *)
(***************************************************************************)
\* Variant of StakeError: the duration is validated before the existing stake
\* is looked at.
StakeError_DurationFirst(data, lockDurationSeconds, value) ==
    IF \/ lockDurationSeconds < MIN_LOCK_DURATION
       \/ lockDurationSeconds > MAX_LOCK_DURATION
         THEN "InvalidLockDuration"
    ELSE IF data.exists THEN "StakeAlreadyActive"
    ELSE IF value = 0 THEN "InvalidStakeAmount"
    ELSE IF value > MaxUint128 THEN "StakeAmountTooLarge"
    ELSE "ok"

\* Variant of StakeError: an existing stake is not looked at.
StakeError_NoExistsCheck(data, lockDurationSeconds, value) ==
    IF \/ lockDurationSeconds < MIN_LOCK_DURATION
       \/ lockDurationSeconds > MAX_LOCK_DURATION
         THEN "InvalidLockDuration"
    ELSE IF value = 0 THEN "InvalidStakeAmount"
    ELSE IF value > MaxUint128 THEN "StakeAmountTooLarge"
    ELSE "ok"

\* Variant of StakeError: the amount is validated before the duration.
StakeError_AmountFirst(data, lockDurationSeconds, value) ==
    IF data.exists THEN "StakeAlreadyActive"
    ELSE IF value = 0 THEN "InvalidStakeAmount"
    ELSE IF value > MaxUint128 THEN "StakeAmountTooLarge"
    ELSE IF \/ lockDurationSeconds < MIN_LOCK_DURATION
            \/ lockDurationSeconds > MAX_LOCK_DURATION
         THEN "InvalidLockDuration"
    ELSE "ok"

\* Variant of StakeError: the longest duration is refused.
StakeError_ExclusiveMax(data, lockDurationSeconds, value) ==
    IF data.exists THEN "StakeAlreadyActive"
    ELSE IF \/ lockDurationSeconds < MIN_LOCK_DURATION
            \/ lockDurationSeconds >= MAX_LOCK_DURATION
         THEN "InvalidLockDuration"
    ELSE IF value = 0 THEN "InvalidStakeAmount"
    ELSE IF value > MaxUint128 THEN "StakeAmountTooLarge"
    ELSE "ok"

StakeError(data, lockDurationSeconds, value) ==
    IF data.exists THEN "StakeAlreadyActive"
    ELSE IF \/ lockDurationSeconds < MIN_LOCK_DURATION
            \/ lockDurationSeconds > MAX_LOCK_DURATION
         THEN "InvalidLockDuration"
    ELSE IF value = 0 THEN "InvalidStakeAmount"
    ELSE IF value > MaxUint128 THEN "StakeAmountTooLarge"
    ELSE "ok"

\* Variant of NewStake: the handle is not stored.
NewStake_NoHandle(encryptedAmount, lockDurationSeconds, timestamp) ==
    [encryptedAmount |-> ZeroHandle, lockDuration |-> lockDurationSeconds,
     startTimestamp |-> timestamp, withdrawalRequested |-> FALSE, exists |-> TRUE]

\* Variant of NewStake: the start of the lock is not recorded.
NewStake_NoStart(encryptedAmount, lockDurationSeconds, timestamp) ==
    [encryptedAmount |-> encryptedAmount, lockDuration |-> lockDurationSeconds,
     startTimestamp |-> 0, withdrawalRequested |-> FALSE, exists |-> TRUE]

\* Variant of NewStake: the record is born with its withdrawal requested.
NewStake_Requested(encryptedAmount, lockDurationSeconds, timestamp) ==
    [encryptedAmount |-> encryptedAmount, lockDuration |-> lockDurationSeconds,
     startTimestamp |-> timestamp, withdrawalRequested |-> TRUE, exists |-> TRUE]

NewStake(encryptedAmount, lockDurationSeconds, timestamp) ==
    [encryptedAmount |-> encryptedAmount, lockDuration |-> lockDurationSeconds,
     startTimestamp |-> timestamp, withdrawalRequested |-> FALSE, exists |-> TRUE]

StakeCreated(user, amount, lockDuration, encryptedAmount) ==
    [name |-> "StakeCreated", user |-> user, amount |-> amount,
     lockDuration |-> lockDuration, encryptedAmount |-> encryptedAmount]

Stake(a, lockDurationSeconds, value) ==
    /\ CanCall(a)
    /\ value <= balance[a]
    /\ LET err == StakeError(stakes[a], lockDurationSeconds, value)
           clearAmount == ToUint128(value)
           encryptedAmount == asEuint128(clearAmount)
       IN IF err # "ok"
          THEN /\ lastCall' = Returned("stake", a, err, <<>>)
               /\ UNCHANGED <<stakes, balance, now, publiclyDecryptable, allowed,
                              deposited, requestedAt, frames>>
          ELSE /\ stakes' = [stakes EXCEPT ![a] =
                                NewStake(encryptedAmount, lockDurationSeconds, now)]
               /\ balance' = [balance EXCEPT ![a] = @ - value,
                                             ![Vault] = @ + value]
               /\ allowed' = allowed \cup {<<encryptedAmount, a>>,
                                           <<encryptedAmount, Vault>>}
               /\ deposited' = [deposited EXCEPT ![a] = value]
               /\ lastCall' = Returned("stake", a, "ok",
                                <<StakeCreated(a, clearAmount, lockDurationSeconds,
                                               toBytes32(encryptedAmount))>>)
               /\ UNCHANGED <<now, publiclyDecryptable, requestedAt, frames>>

(***************************************************************************)
(* requestWithdrawal                                                       *)
(***************************************************************************)
\* Variant of LockElapsed: the lock is never checked.
LockElapsed_Unchecked(data, timestamp) == TRUE

\* Variant of LockElapsed: the unlock instant itself is still locked.
LockElapsed_Strict(data, timestamp) ==
    timestamp > data.startTimestamp + data.lockDuration

LockElapsed(data, timestamp) ==
    ~(timestamp < data.startTimestamp + data.lockDuration)

\* Variant of RequestError: a request already made is not looked at.
RequestError_NoRepeatCheck(data, timestamp) ==
    IF ~data.exists THEN "NoActiveStake"
    ELSE IF ~(timestamp >= data.startTimestamp + data.lockDuration)
         THEN "LockPeriodActive"
    ELSE "ok"

RequestError(data, timestamp) ==
    IF ~data.exists THEN "NoActiveStake"
    ELSE IF ~LockElapsed(data, timestamp) THEN "LockPeriodActive"
    ELSE IF data.withdrawalRequested THEN "WithdrawalAlreadyRequested"
    ELSE "ok"

WithdrawalRequested(user, encryptedAmount) ==
    [name |-> "WithdrawalRequested", user |-> user,
     encryptedAmount |-> encryptedAmount]

\* Variant of RequestWithdrawal: the request restarts the lock at the time of
\* the request.
RequestWithdrawal_Restart(a) ==
    /\ CanCall(a)
    /\ LET data == stakes[a]
           err == RequestError(data, now)
       IN IF err # "ok"
          THEN /\ lastCall' = Returned("requestWithdrawal", a, err, <<>>)
               /\ UNCHANGED <<stakes, balance, now, publiclyDecryptable, allowed,
                              deposited, requestedAt, frames>>
          ELSE /\ stakes' = [stakes EXCEPT ![a].withdrawalRequested = TRUE,
                                           ![a].startTimestamp = now]
               /\ publiclyDecryptable' =
                      publiclyDecryptable \cup {data.encryptedAmount}
               /\ requestedAt' = [requestedAt EXCEPT ![a] = now]
               /\ lastCall' = Returned("requestWithdrawal", a, "ok",
                                <<WithdrawalRequested(a,
                                      toBytes32(data.encryptedAmount))>>)
               /\ UNCHANGED <<balance, now, allowed, deposited, frames>>

RequestWithdrawal(a) ==
    /\ CanCall(a)
    /\ LET data == stakes[a]
           err == RequestError(data, now)
       IN IF err # "ok"
          THEN /\ lastCall' = Returned("requestWithdrawal", a, err, <<>>)
               /\ UNCHANGED <<stakes, balance, now, publiclyDecryptable, allowed,
                              deposited, requestedAt, frames>>
          ELSE /\ stakes' = [stakes EXCEPT ![a].withdrawalRequested = TRUE]
               /\ publiclyDecryptable' =
                      publiclyDecryptable \cup {data.encryptedAmount}
               /\ requestedAt' = [requestedAt EXCEPT ![a] = now]
               /\ lastCall' = Returned("requestWithdrawal", a, "ok",
                                <<WithdrawalRequested(a,
                                      toBytes32(data.encryptedAmount))>>)
               /\ UNCHANGED <<balance, now, allowed, deposited, frames>>

(***************************************************************************)
(* finalizeWithdrawal                                                      *)
(***************************************************************************)
\* Variant of FinalizeError: the proof is not checked.
FinalizeError_NoProofCheck(data, abiEncodedCleartexts, decryptionProof) ==
    IF ~data.exists THEN "NoActiveStake"
    ELSE IF ~data.withdrawalRequested THEN "WithdrawalNotRequested"
    ELSE IF ~AbiDecodes(abiEncodedCleartexts) THEN "AbiDecodeFailed"
    ELSE "ok"

\* Variant of FinalizeError: whether the withdrawal was requested is not
\* looked at.
FinalizeError_NoRequestCheck(data, abiEncodedCleartexts, decryptionProof) ==
    IF ~data.exists THEN "NoActiveStake"
    ELSE IF ~checkSignatures(<<toBytes32(data.encryptedAmount)>>,
                             abiEncodedCleartexts, decryptionProof)
         THEN "ProofVerificationFailed"
    ELSE IF ~AbiDecodes(abiEncodedCleartexts) THEN "AbiDecodeFailed"
    ELSE "ok"

\* Variant of FinalizeError: the signatures are checked over the handles the
\* proof names, not over the handle of the caller's record.
FinalizeError_ProofHandles(data, abiEncodedCleartexts, decryptionProof) ==
    IF ~data.exists THEN "NoActiveStake"
    ELSE IF ~data.withdrawalRequested THEN "WithdrawalNotRequested"
    ELSE IF ~checkSignatures(decryptionProof.handles, abiEncodedCleartexts,
                             decryptionProof)
         THEN "ProofVerificationFailed"
    ELSE IF ~AbiDecodes(abiEncodedCleartexts) THEN "AbiDecodeFailed"
    ELSE "ok"

\* Variant of FinalizeError: the proof is verified first.
FinalizeError_ProofFirst(data, abiEncodedCleartexts, decryptionProof) ==
    IF ~checkSignatures(<<toBytes32(data.encryptedAmount)>>,
                        abiEncodedCleartexts, decryptionProof)
    THEN "ProofVerificationFailed"
    ELSE IF ~data.exists THEN "NoActiveStake"
    ELSE IF ~data.withdrawalRequested THEN "WithdrawalNotRequested"
    ELSE IF ~AbiDecodes(abiEncodedCleartexts) THEN "AbiDecodeFailed"
    ELSE "ok"

\* The checks before the record is deleted, in the order of the code.
FinalizeError(data, abiEncodedCleartexts, decryptionProof) ==
    IF ~data.exists THEN "NoActiveStake"
    ELSE IF ~data.withdrawalRequested THEN "WithdrawalNotRequested"
    ELSE IF ~checkSignatures(<<toBytes32(data.encryptedAmount)>>,
                             abiEncodedCleartexts, decryptionProof)
         THEN "ProofVerificationFailed"
    ELSE IF ~AbiDecodes(abiEncodedCleartexts) THEN "AbiDecodeFailed"
    ELSE "ok"

\* require(sent, "ETH transfer failed")
TransferFailed == "ETH transfer failed"

WithdrawalFinalized(user, amount, encryptedAmount) ==
    [name |-> "WithdrawalFinalized", user |-> user, amount |-> amount,
     encryptedAmount |-> encryptedAmount]

\* Variant of DeleteStake: the record is still there when the transfer is made.
DeleteStake_AfterTransfer(s, a) == s

\* Variant of DeleteStake: the fields are cleared, the exists flag is left.
DeleteStake_KeepsFlag(s, a) == [s EXCEPT ![a] = [NoStake EXCEPT !.exists = TRUE]]

\* Variant of DeleteStake: the entry is marked absent, its other fields stay.
DeleteStake_FlagOnly(s, a) == [s EXCEPT ![a].exists = FALSE]

\* Variant of DeleteStake: the whole ledger is cleared.
DeleteStake_All(s, a) == [x \in DOMAIN s |-> NoStake]

\* delete _stakes[msg.sender]
DeleteStake(s, a) == [s EXCEPT ![a] = NoStake]

\* Variant of Transfer: the whole vault balance is sent.
Transfer_Drain(b, to, amount) ==
    [b EXCEPT ![Vault] = 0, ![to] = @ + b[Vault]]

\* msg.sender.call{value: amount}(""): the value moves before the
\* recipient's code runs.
Transfer(b, to, amount) ==
    [b EXCEPT ![Vault] = @ - amount, ![to] = @ + amount]

FinalizeWithdrawal(a, abiEncodedCleartexts, decryptionProof) ==
    /\ CanCall(a)
    /\ LET data == stakes[a]
           err == FinalizeError(data, abiEncodedCleartexts, decryptionProof)
           handle == toBytes32(data.encryptedAmount)
           decryptedAmount == AbiDecodeUint128(abiEncodedCleartexts)
       IN IF err # "ok"
          THEN /\ lastCall' = Returned("finalizeWithdrawal", a, err, <<>>)
               /\ UNCHANGED <<stakes, balance, now, publiclyDecryptable, allowed,
                              deposited, requestedAt, frames>>
          ELSE IF balance[Vault] < decryptedAmount
          THEN \* the call cannot carry the value: sent = false
               /\ lastCall' = Returned("finalizeWithdrawal", a, TransferFailed, <<>>)
               /\ UNCHANGED <<stakes, balance, now, publiclyDecryptable, allowed,
                              deposited, requestedAt, frames>>
          ELSE /\ stakes' = DeleteStake(stakes, a)
               /\ balance' = Transfer(balance, a, decryptedAmount)
               /\ deposited' = [deposited EXCEPT ![a] = 0]
               /\ requestedAt' = [requestedAt EXCEPT ![a] = NotRequested]
               /\ UNCHANGED <<now, publiclyDecryptable, allowed>>
               /\ IF a \in Contracts
                  THEN \* the recipient's code runs; the call is suspended
                       /\ Len(frames) < MaxDepth
                       /\ frames' = <<Frame(a, decryptedAmount, handle, Snapshot)>>
                                       \o frames
                       /\ UNCHANGED lastCall
                  ELSE \* no code at the recipient: sent = true
                       /\ lastCall' = Returned("finalizeWithdrawal", a, "ok",
                                        <<WithdrawalFinalized(a, decryptedAmount,
                                                              handle)>>)
                       /\ UNCHANGED frames

\* The recipient's callback returns normally: sent = true.
ReceiveAccept ==
    /\ frames # <<>>
    /\ LET frame == Head(frames)
       IN lastCall' = Returned("finalizeWithdrawal", frame.sender, "ok",
                        <<WithdrawalFinalized(frame.sender, frame.amount,
                                              frame.handle)>>)
    /\ frames' = Tail(frames)
    /\ UNCHANGED <<stakes, balance, now, publiclyDecryptable, allowed, deposited,
                   requestedAt>>

\* Variant of ReceiveRevert: the failed transfer is reported, the deletion of
\* the record is kept.
ReceiveRevert_KeepsDeletion ==
    /\ frames # <<>>
    /\ LET frame == Head(frames)
       IN /\ balance' = frame.saved.balance
          /\ lastCall' = Returned("finalizeWithdrawal", frame.sender,
                                  "ETH transfer failed", <<>>)
    /\ frames' = Tail(frames)
    /\ UNCHANGED <<stakes, now, publiclyDecryptable, allowed, deposited,
                   requestedAt>>

\* Variant of ReceiveRevert: the access grants made inside the failed call are
\* kept.
ReceiveRevert_KeepsGrants ==
    /\ frames # <<>>
    /\ LET frame == Head(frames)
       IN /\ stakes' = frame.saved.stakes
          /\ balance' = frame.saved.balance
          /\ publiclyDecryptable' = frame.saved.publiclyDecryptable
          /\ deposited' = frame.saved.deposited
          /\ requestedAt' = frame.saved.requestedAt
          /\ lastCall' = Returned("finalizeWithdrawal", frame.sender,
                                  TransferFailed, <<>>)
    /\ frames' = Tail(frames)
    /\ UNCHANGED <<now, allowed>>

\* The recipient's callback reverts: sent = false, the require fails and the
\* whole call is undone, with every call made from inside the callback.
ReceiveRevert ==
    /\ frames # <<>>
    /\ LET frame == Head(frames)
       IN /\ stakes' = frame.saved.stakes
          /\ balance' = frame.saved.balance
          /\ publiclyDecryptable' = frame.saved.publiclyDecryptable
          /\ allowed' = frame.saved.allowed
          /\ deposited' = frame.saved.deposited
          /\ requestedAt' = frame.saved.requestedAt
          /\ lastCall' = Returned("finalizeWithdrawal", frame.sender,
                                  TransferFailed, <<>>)
    /\ frames' = Tail(frames)
    /\ UNCHANGED now

Next ==
    \/ \E t \in Times : Tick(t)
    \/ \E a \in Accounts, d \in DurationInputs, v \in Values : Stake(a, d, v)
    \/ \E a \in Accounts : RequestWithdrawal(a)
    \/ \E a \in Accounts, c \in CleartextInputs,
          p \in ProofInputs(publiclyDecryptable) : FinalizeWithdrawal(a, c, p)
    \/ ReceiveAccept
    \/ ReceiveRevert

(***************************************************************************)
(* Properties                                                              *)
(***************************************************************************)
\* hasStake(user)
hasStake(a) == stakes[a].exists

UnlockTimestamp(data) == data.startTimestamp + data.lockDuration

\* Everything a revert must leave as it was.
ChainState == <<stakes, balance, now, publiclyDecryptable, allowed, deposited,
                requestedAt>>

\* This step is the return, successful or not, of a suspended
\* finalizeWithdrawal.
Returns == frames # <<>> /\ frames' = Tail(frames)

\* This step undoes a finalizeWithdrawal whose transfer failed.
RollsBack == Returns /\ lastCall'.status = TransferFailed

\* The call that returns in this step, if one does, is a call of op by a.
Answers(op, a) == lastCall'.op = op /\ lastCall'.sender = a

\* C1: value reaches an account only through a finalizeWithdrawal of that
\* account on a record whose withdrawal was requested at or after
\* startTimestamp + lockDuration, with a proof that checkSignatures accepts for
\* the record's handle and the claimed cleartext, and the value is that
\* cleartext. (The undoing of a failed call only gives back what the call took.)
C1_ReleaseOnlyAfterLockAndProof ==
    [][/\ \A a \in Accounts :
            balance'[a] > balance[a] =>
              \/ RollsBack /\ balance' = Head(frames).saved.balance
              \/ \E c \in CleartextInputs, p \in ProofInputs(publiclyDecryptable) :
                    /\ FinalizeWithdrawal(a, c, p)
                    /\ stakes[a].exists
                    /\ stakes[a].withdrawalRequested
                    /\ requestedAt[a] # NotRequested
                    /\ requestedAt[a] >= UnlockTimestamp(stakes[a])
                    /\ requestedAt[a] <= now
                    /\ checkSignatures(<<stakes[a].encryptedAmount>>, c, p)
                    /\ balance'[a] - balance[a] = AbiDecodeUint128(c)
       /\ balance'[Vault] < balance[Vault] =>
              RollsBack \/ \E a \in Accounts : balance'[a] > balance[a]
      ]_vars

\* A finalizeWithdrawal has succeeded and paid the caller's deposit back.
C1_Witness ==
    /\ lastCall.op = "finalizeWithdrawal"
    /\ lastCall.status = "ok"
    /\ balance[lastCall.sender] = InitialBalance
    /\ balance[Vault] = 0

\* This call of finalizeWithdrawal carries a valid proof for a record whose
\* withdrawal was requested.
ValidFinalize(a, c, p) ==
    /\ stakes[a].exists
    /\ stakes[a].withdrawalRequested
    /\ p.signed
    /\ p.handles = <<stakes[a].encryptedAmount>>
    /\ p.cleartexts = c
    /\ FinalizeWithdrawal(a, c, p)

\* C2 as claimed: every finalizeWithdrawal called with a valid proof on a
\* record with withdrawalRequested = TRUE returns having moved exactly the
\* deposit from the vault to the caller, and hasStake(caller) is false then.
C2_AsClaimed ==
    [][/\ \A a \in Accounts \ Contracts, c \in CleartextInputs,
             p \in ProofInputs(publiclyDecryptable) :
            ValidFinalize(a, c, p) =>
                /\ lastCall'.status = "ok"
                /\ balance' = Transfer(balance, a, deposited[a])
                /\ ~stakes'[a].exists
       /\ Returns =>
            LET caller == Head(frames).sender
                before == Head(frames).saved
            IN /\ lastCall'.status = "ok"
               /\ balance'[caller] =
                      before.balance[caller] + before.deposited[caller]
               /\ balance'[Vault] =
                      before.balance[Vault] - before.deposited[caller]
               /\ ~stakes'[caller].exists
      ]_vars

\* C2, amended: a finalizeWithdrawal called with a valid proof on a record
\* with withdrawalRequested = TRUE deletes the record and moves exactly the
\* amount deposited by the stake that created it from the vault to the caller.
\* A caller without code cannot refuse: the call succeeds. A caller with code
\* may refuse, and then the call reverts and nothing is transferred; when it
\* accepts, the call succeeds, the caller holds the deposit less what it
\* staked from inside the callback, and hasStake(caller) is false unless it
\* staked again from inside the callback.
C2_FinalizeTransfersDeposit ==
    [][/\ \A a \in Accounts, c \in CleartextInputs,
             p \in ProofInputs(publiclyDecryptable) :
            ValidFinalize(a, c, p) =>
                /\ deposited[a] > 0
                /\ AbiDecodeUint128(c) = deposited[a]
                /\ balance'[Vault] = balance[Vault] - deposited[a]
                /\ balance'[a] = balance[a] + deposited[a]
                /\ \A b \in Accounts \ {a} : balance'[b] = balance[b]
                /\ ~stakes'[a].exists
                /\ a \notin Contracts =>
                     lastCall' = Returned("finalizeWithdrawal", a, "ok",
                                   <<WithdrawalFinalized(a, deposited[a],
                                        stakes[a].encryptedAmount)>>)
       /\ Returns =>
            LET caller == Head(frames).sender
                before == Head(frames).saved
                restaked == IF hasStake(caller) THEN deposited[caller] ELSE 0
            IN IF lastCall'.status = "ok"
               THEN /\ UNCHANGED ChainState
                    /\ lastCall'.logs =
                          <<WithdrawalFinalized(caller, before.deposited[caller],
                                before.stakes[caller].encryptedAmount)>>
                    /\ balance'[caller] = before.balance[caller]
                                            + before.deposited[caller] - restaked
                    /\ stakes'[caller].exists =>
                          /\ stakes'[caller].startTimestamp = now
                          /\ ~stakes'[caller].withdrawalRequested
               ELSE /\ lastCall'.status = TransferFailed
                    /\ balance' = before.balance
                    /\ stakes' = before.stakes
      ]_vars

\* A contract's finalizeWithdrawal has succeeded and the contract, having
\* staked again from inside the callback, has a stake.
C2_Witness ==
    /\ lastCall.op = "finalizeWithdrawal"
    /\ lastCall.status = "ok"
    /\ lastCall.sender \in Contracts
    /\ hasStake(lastCall.sender)
    /\ frames = <<>>

\* C3: when the transfer of a finalizeWithdrawal fails, the call fails with
\* "ETH transfer failed" and everything is as it was when the call was made:
\* the caller's record is present with withdrawalRequested still TRUE, no
\* balance has changed and no event is emitted. The state saved when the call
\* is suspended is the state before the call, it is kept while the callback
\* runs, and it is what the failure restores.
C3_FailedTransferRollsBack ==
    [][/\ \A a \in Accounts, c \in CleartextInputs,
             p \in ProofInputs(publiclyDecryptable) :
            (frames' # frames /\ FinalizeWithdrawal(a, c, p)) =>
                /\ frames' = <<Frame(a, AbiDecodeUint128(c),
                                     stakes[a].encryptedAmount,
                                     [stakes |-> stakes, balance |-> balance,
                                      publiclyDecryptable |-> publiclyDecryptable,
                                      allowed |-> allowed, deposited |-> deposited,
                                      requestedAt |-> requestedAt])>> \o frames
                /\ hasStake(a) /\ stakes[a].withdrawalRequested
       /\ RollsBack =>
            LET caller == Head(frames).sender
                before == Head(frames).saved
            IN /\ stakes' = before.stakes
               /\ balance' = before.balance
               /\ publiclyDecryptable' = before.publiclyDecryptable
               /\ allowed' = before.allowed
               /\ stakes'[caller].exists
               /\ stakes'[caller].withdrawalRequested
               /\ stakes'[caller].encryptedAmount = Head(frames).handle
               /\ lastCall' = Returned("finalizeWithdrawal", caller,
                                       TransferFailed, <<>>)
       /\ (lastCall'.op = "finalizeWithdrawal" /\ lastCall'.status = TransferFailed
             /\ lastCall' # lastCall) => RollsBack
      ]_vars

\* A finalizeWithdrawal has failed in its transfer and the caller's record is
\* there, with the withdrawal still requested and the deposit still in the vault.
C3_Witness ==
    /\ lastCall.op = "finalizeWithdrawal"
    /\ lastCall.status = TransferFailed
    /\ hasStake(lastCall.sender)
    /\ stakes[lastCall.sender].withdrawalRequested
    /\ balance[Vault] >= deposited[lastCall.sender]
    /\ deposited[lastCall.sender] > 0
    /\ frames = <<>>

C5_BadProofChangesNothing ==
    [][\A a \in Accounts :
         (/\ hasStake(a)
          /\ stakes[a].withdrawalRequested
          /\ (Answers("finalizeWithdrawal", a) \/ frames' # frames)) =>
            \/ /\ lastCall' = Returned("finalizeWithdrawal", a,
                                       "ProofVerificationFailed", <<>>)
               /\ UNCHANGED <<ChainState, frames>>
               /\ \E p2 \in OracleProofs(publiclyDecryptable') :
                     FinalizeError(stakes'[a], AbiEncode(deposited'[a]), p2)
                        = "ok"
            \/ \A c \in CleartextInputs,
                  p \in ProofInputs(publiclyDecryptable) :
                  ~(/\ (~p.signed \/ c # AbiEncode(deposited[a]))
                    /\ FinalizeWithdrawal(a, c, p))
      ]_vars

\* A finalizeWithdrawal has failed on its proof and the record is intact.
C5_Witness ==
    /\ lastCall.op = "finalizeWithdrawal"
    /\ lastCall.status = "ProofVerificationFailed"
    /\ hasStake(lastCall.sender)
    /\ stakes[lastCall.sender].withdrawalRequested

Lifecycle(data) ==
    IF ~data.exists THEN "Absent"
    ELSE IF data.withdrawalRequested THEN "PendingFinalization"
    ELSE "Active"

\* C6: every call, made as a transaction or from inside a transfer callback,
\* leaves each account's record as it is or takes it Absent -> Active (a
\* successful stake of the account: a fresh record, withdrawalRequested FALSE,
\* startTimestamp = now), Active -> PendingFinalization (its successful
\* requestWithdrawal) or PendingFinalization -> Absent (its finalizeWithdrawal);
\* the only other step, the undoing of a finalizeWithdrawal whose transfer
\* failed, puts every record back as it was when that call was made.
C6_LifecycleTransitions ==
    [][\/ RollsBack /\ stakes' = Head(frames).saved.stakes
       \/ \A a \in Accounts :
            LET from == Lifecycle(stakes[a])
                to == Lifecycle(stakes'[a])
            IN \/ stakes'[a] = stakes[a]
               \/ /\ from = "Absent" /\ to = "Active"
                  /\ lastCall'.op = "stake" /\ lastCall'.sender = a
                  /\ lastCall'.status = "ok"
                  /\ stakes'[a].startTimestamp = now
                  /\ ~stakes'[a].withdrawalRequested
               \/ /\ from = "Active" /\ to = "PendingFinalization"
                  /\ lastCall'.op = "requestWithdrawal" /\ lastCall'.sender = a
                  /\ lastCall'.status = "ok"
                  /\ stakes'[a] = [stakes[a] EXCEPT !.withdrawalRequested = TRUE]
               \/ /\ from = "PendingFinalization" /\ to = "Absent"
                  /\ stakes'[a] = NoStake
                  /\ \E c \in CleartextInputs,
                        p \in ProofInputs(publiclyDecryptable) :
                        FinalizeWithdrawal(a, c, p)
      ]_vars

\* alice, back to Absent after a first stake of another amount, has staked
\* again and holds a fresh record.
C6_Witness ==
    /\ hasStake("alice")
    /\ ~stakes["alice"].withdrawalRequested
    /\ stakes["alice"].startTimestamp = now
    /\ \E h \in {asEuint128(v) : v \in Values} :
          /\ <<h, "alice">> \in allowed
          /\ h # stakes["alice"].encryptedAmount

\* C7: stake by an account that has a record fails with StakeAlreadyActive for
\* every duration and deposit and changes nothing.
C7_StakeOnExistingRecordFails ==
    [][\A a \in Accounts :
         (hasStake(a) /\ Answers("stake", a)) =>
            \A d \in DurationInputs, v \in Values :
               Stake(a, d, v) =>
                  /\ lastCall' = Returned("stake", a, "StakeAlreadyActive", <<>>)
                  /\ UNCHANGED <<ChainState, frames>>
      ]_vars

\* A stake has failed with StakeAlreadyActive on a record whose withdrawal is
\* requested.
C7_Witness ==
    /\ lastCall.op = "stake"
    /\ lastCall.status = "StakeAlreadyActive"
    /\ hasStake(lastCall.sender)
    /\ stakes[lastCall.sender].withdrawalRequested

\* C8 as claimed: when an account calls stake and the call before it was a
\* stake of the same account too, no finalizeWithdrawal being made in between,
\* both calls fail with StakeAlreadyActive (the first not having failed on its
\* arguments).
C8_AsClaimed ==
    [][\A a \in Accounts :
         (lastCall.op = "stake" /\ lastCall.sender = a /\ frames = <<>>
            /\ lastCall.status \in {"ok", "StakeAlreadyActive"}
            /\ Answers("stake", a)) =>
            \A d \in DurationInputs, v \in Values :
               Stake(a, d, v) =>
                  /\ lastCall.status = "StakeAlreadyActive"
                  /\ lastCall'.status = "StakeAlreadyActive"
      ]_vars

\* C8, amended: once a stake of an account has succeeded, every stake of that
\* account fails with StakeAlreadyActive until a finalizeWithdrawal of the
\* account deletes the record, and a stake fails with StakeAlreadyActive only
\* then; so of two stakes in a row the second fails with StakeAlreadyActive
\* when the first succeeded or failed with StakeAlreadyActive itself.
C8_SecondStakeFails ==
    [][\A a \in Accounts :
         Answers("stake", a) =>
            \A d \in DurationInputs, v \in Values :
               Stake(a, d, v) =>
                  /\ deposited[a] # 0 <=> lastCall'.status = "StakeAlreadyActive"
                  /\ (lastCall.op = "stake" /\ lastCall.sender = a
                        /\ lastCall.status \in {"ok", "StakeAlreadyActive"}
                        /\ frames = <<>>)
                       => lastCall'.status = "StakeAlreadyActive"
      ]_vars

\* The second of two stakes in a row has failed with StakeAlreadyActive.
C8_Witness ==
    /\ lastCall.op = "stake"
    /\ lastCall.status = "StakeAlreadyActive"
    /\ ~stakes[lastCall.sender].withdrawalRequested
    /\ deposited[lastCall.sender] # 0

\* C9: requestWithdrawal on a record with withdrawalRequested = FALSE fails
\* with LockPeriodActive and changes nothing while
\* now < startTimestamp + lockDuration, and succeeds from
\* now = startTimestamp + lockDuration on, setting withdrawalRequested and
\* making the handle publicly decryptable.
C9_RequestAtOrAfterUnlock ==
    [][\A a \in Accounts :
         (RequestWithdrawal(a) /\ hasStake(a) /\ ~stakes[a].withdrawalRequested) =>
            IF now < stakes[a].startTimestamp + stakes[a].lockDuration
            THEN /\ lastCall' = Returned("requestWithdrawal", a,
                                         "LockPeriodActive", <<>>)
                 /\ UNCHANGED <<ChainState, frames>>
            ELSE /\ lastCall'.op = "requestWithdrawal"
                 /\ lastCall'.sender = a
                 /\ lastCall'.status = "ok"
                 /\ stakes'[a] = [stakes[a] EXCEPT !.withdrawalRequested = TRUE]
                 /\ stakes[a].encryptedAmount \in publiclyDecryptable'
      ]_vars

\* A requestWithdrawal has succeeded at the very instant
\* startTimestamp + lockDuration.
C9_Witness ==
    /\ lastCall.op = "requestWithdrawal"
    /\ lastCall.status = "ok"
    /\ hasStake(lastCall.sender)
    /\ requestedAt[lastCall.sender] = UnlockTimestamp(stakes[lastCall.sender])
    /\ now = UnlockTimestamp(stakes[lastCall.sender])

C11_FinalizeWithoutRequestFails ==
    [][\A a \in Accounts :
         (hasStake(a) /\ ~stakes[a].withdrawalRequested
            /\ (Answers("finalizeWithdrawal", a) \/ frames' # frames)) =>
            \/ /\ lastCall' = Returned("finalizeWithdrawal", a,
                                       "WithdrawalNotRequested", <<>>)
               /\ UNCHANGED <<ChainState, frames>>
            \/ \A c \in CleartextInputs,
                  p \in ProofInputs(publiclyDecryptable) :
                  ~FinalizeWithdrawal(a, c, p)
      ]_vars

\* A finalizeWithdrawal has failed with WithdrawalNotRequested on a record
\* whose handle is publicly decryptable, so that a proof that verifies for it
\* exists.
C11_Witness ==
    /\ lastCall.op = "finalizeWithdrawal"
    /\ lastCall.status = "WithdrawalNotRequested"
    /\ hasStake(lastCall.sender)
    /\ ~stakes[lastCall.sender].withdrawalRequested
    /\ stakes[lastCall.sender].encryptedAmount \in publiclyDecryptable

\* The errors of stake in the order they are checked, and when each applies.
StakeErrorOrder ==
    <<"StakeAlreadyActive", "InvalidLockDuration", "InvalidStakeAmount",
      "StakeAmountTooLarge">>

StakeErrorApplies(e, a, d, v) ==
    CASE e = "StakeAlreadyActive" -> hasStake(a)
      [] e = "InvalidLockDuration" -> d < 86400 \/ d > 31536000
      [] e = "InvalidStakeAmount" -> v = 0
      [] e = "StakeAmountTooLarge" -> v > MaxUint128

\* C12: stake reports the first error, in the order StakeAlreadyActive,
\* InvalidLockDuration, InvalidStakeAmount, StakeAmountTooLarge, that applies
\* to (record present, duration, deposit), whatever later ones apply too, and
\* a stake that reports an error changes nothing; it succeeds when none applies.
C12_StakeErrorOrder ==
    [][\A a \in Accounts :
         Answers("stake", a) =>
            \A d \in DurationInputs, v \in Values :
               Stake(a, d, v) =>
                  LET applying == {i \in 1..Len(StakeErrorOrder) :
                                     StakeErrorApplies(StakeErrorOrder[i], a, d, v)}
                  IN IF applying = {}
                     THEN lastCall'.status = "ok"
                     ELSE /\ \E i \in applying :
                               /\ \A j \in applying : i <= j
                               /\ lastCall'.status = StakeErrorOrder[i]
                          /\ lastCall'.logs = <<>>
                          /\ UNCHANGED <<ChainState, frames>>
      ]_vars

\* A stake has failed with InvalidLockDuration on an account with no record:
\* among the calls that do so are those with a deposit of 0 or above the range.
C12_Witness ==
    /\ lastCall.op = "stake"
    /\ lastCall.status = "InvalidLockDuration"
    /\ ~hasStake(lastCall.sender)
    /\ \E other \in Accounts : hasStake(other)

\* C13: on an account with no record and with a deposit in range, stake
\* fails with InvalidLockDuration for a duration below 86400 or above 31536000
\* and succeeds for every duration from 86400 to 31536000, both included.
C13_DurationBounds ==
    [][\A a \in Accounts :
         (~hasStake(a) /\ Answers("stake", a)) =>
            \A d \in DurationInputs, v \in Values :
               (v >= 1 /\ v <= MaxUint128 /\ Stake(a, d, v)) =>
                  IF d < 86400 \/ d > 31536000
                  THEN /\ lastCall' = Returned("stake", a,
                                               "InvalidLockDuration", <<>>)
                       /\ UNCHANGED <<ChainState, frames>>
                  ELSE /\ lastCall'.status = "ok"
                       /\ stakes'[a].exists
                       /\ stakes'[a].lockDuration = d
      ]_vars

\* One account holds a stake of the shortest duration and the other a stake of
\* the longest.
C13_Witness ==
    \E a \in Accounts, b \in Accounts :
        /\ hasStake(a) /\ stakes[a].lockDuration = 86400
        /\ hasStake(b) /\ stakes[b].lockDuration = 31536000

\* C14: on an account with no record and with a valid duration, stake fails
\* with InvalidStakeAmount for a deposit of 0 and with StakeAmountTooLarge for
\* a deposit above type(uint128).max, and succeeds for every deposit from 1 to
\* type(uint128).max, storing a handle of the whole deposit and taking it.
C14_DepositBounds ==
    [][\A a \in Accounts :
         (~hasStake(a) /\ Answers("stake", a)) =>
            \A d \in DurationInputs, v \in Values :
               (d >= MIN_LOCK_DURATION /\ d <= MAX_LOCK_DURATION
                  /\ Stake(a, d, v)) =>
                  IF v = 0 \/ v > MaxUint128
                  THEN /\ lastCall' = Returned("stake", a,
                                         IF v = 0 THEN "InvalidStakeAmount"
                                                  ELSE "StakeAmountTooLarge", <<>>)
                       /\ UNCHANGED <<ChainState, frames>>
                  ELSE /\ lastCall'.status = "ok"
                       /\ stakes'[a].exists
                       /\ Decrypt(stakes'[a].encryptedAmount) = v
                       /\ lastCall'.logs[1].amount = v
                       /\ balance'[Vault] = balance[Vault] + v
                       /\ balance'[a] = balance[a] - v
      ]_vars

\* An account holds a stake of type(uint128).max, the whole of it in the handle.
C14_Witness ==
    \E a \in Accounts :
        /\ hasStake(a)
        /\ deposited[a] = MaxUint128
        /\ Decrypt(stakes[a].encryptedAmount) = MaxUint128
        /\ balance[Vault] >= MaxUint128

\* C15: from the creation of a record to its destruction its lockDuration,
\* startTimestamp and encryptedAmount stay as stake set them: a step that
\* finds a record and leaves a record leaves these three fields, and the handle
\* is the encryption of what was deposited. (The undoing of a failed
\* finalizeWithdrawal puts back the record of before the call, unchanged.)
C15_RecordFieldsImmutable ==
    [][\A a \in Accounts :
         (hasStake(a) /\ stakes'[a].exists) =>
            /\ stakes[a].encryptedAmount = asEuint128(deposited[a])
            /\ IF RollsBack
               THEN stakes'[a] = Head(frames).saved.stakes[a]
               ELSE /\ stakes'[a].lockDuration = stakes[a].lockDuration
                    /\ stakes'[a].startTimestamp = stakes[a].startTimestamp
                    /\ stakes'[a].encryptedAmount = stakes[a].encryptedAmount
      ]_vars

\* A record created before now has had its withdrawal requested, and failed
\* calls have been made on it since.
C15_Witness ==
    \E a \in Accounts :
        /\ hasStake(a)
        /\ stakes[a].withdrawalRequested
        /\ stakes[a].startTimestamp < requestedAt[a]
        /\ lastCall.sender = a
        /\ lastCall.status # "ok"

\* C16: within the life of a record withdrawalRequested starts FALSE, is set
\* by a successful requestWithdrawal of the account, the first since the record
\* was created, and is never FALSE again while the record exists. (The undoing
\* of a failed finalizeWithdrawal puts back the records of before the call.)
C16_WithdrawalRequestedMonotone ==
    [][\A a \in Accounts :
         IF RollsBack
         THEN stakes'[a] = Head(frames).saved.stakes[a]
         ELSE /\ (~hasStake(a) /\ stakes'[a].exists) =>
                    ~stakes'[a].withdrawalRequested
              /\ (hasStake(a) /\ stakes[a].withdrawalRequested
                    /\ stakes'[a].exists) =>
                    stakes'[a].withdrawalRequested
              /\ (hasStake(a) /\ ~stakes[a].withdrawalRequested
                    /\ stakes'[a].exists /\ stakes'[a].withdrawalRequested) =>
                    /\ requestedAt[a] = NotRequested
                    /\ requestedAt'[a] = now
                    /\ RequestWithdrawal(a)
                    /\ lastCall'.status = "ok"
      ]_vars

\* Both accounts hold a record whose withdrawal is requested, and a call on
\* one of them has failed since.
C16_Witness ==
    /\ \A a \in Accounts : hasStake(a) /\ stakes[a].withdrawalRequested
    /\ lastCall.status # "ok"

\* This step is a call of account a: a call of a that returns without having
\* been suspended (the only steps that leave the clock and the suspended
\* calls alone), the suspension of a finalizeWithdrawal of a, or the return of
\* one.
StepBy(a) ==
    \/ frames' = frames /\ now' = now /\ lastCall'.sender = a
    \/ Len(frames') > Len(frames) /\ Head(frames').sender = a
    \/ Returns /\ Head(frames).sender = a

\* C17: a call of account a, successful or not, leaves the record of every
\* other account b, or its absence, and what b deposited and will withdraw, and
\* b's balance, as they were.
C17_OtherAccountsUntouched ==
    [][\A a \in Accounts : \A b \in Accounts \ {a} :
         StepBy(a) =>
            /\ stakes'[b] = stakes[b]
            /\ deposited'[b] = deposited[b]
            /\ requestedAt'[b] = requestedAt[b]
            /\ balance'[b] = balance[b]
      ]_vars

\* An account has withdrawn its stake while the other account's record stays,
\* its withdrawal requested too.
C17_Witness ==
    \E a \in Accounts, b \in Accounts :
        /\ a # b
        /\ lastCall = Returned("finalizeWithdrawal", a, "ok", lastCall.logs)
        /\ ~hasStake(a)
        /\ hasStake(b)
        /\ stakes[b].withdrawalRequested

\* C18: a call that fails changes nothing: the ledger, the publicly
\* decryptable handles, the access grants and every balance are as before the
\* call and no event is emitted. A failed call that was not suspended is a
\* single step; a finalizeWithdrawal whose transfer failed puts back the state
\* saved when it was called.
C18_FailedCallChangesNothing ==
    [][/\ (lastCall'.status # "ok" /\ frames' = frames /\ now' = now) =>
             /\ UNCHANGED ChainState
             /\ lastCall'.logs = <<>>
       /\ (Returns /\ lastCall'.status # "ok") =>
             LET saved == Head(frames).saved
             IN /\ stakes' = saved.stakes
                /\ balance' = saved.balance
                /\ publiclyDecryptable' = saved.publiclyDecryptable
                /\ allowed' = saved.allowed
                /\ deposited' = saved.deposited
                /\ requestedAt' = saved.requestedAt
                /\ lastCall'.logs = <<>>
      ]_vars

\* A stake with a deposit above the range has failed and the sender has the
\* whole of its balance, while the other account's stake is in the vault.
C18_Witness ==
    /\ lastCall.op = "stake"
    /\ lastCall.status = "StakeAmountTooLarge"
    /\ balance[lastCall.sender] = InitialBalance
    /\ \E b \in Accounts : hasStake(b) /\ balance[Vault] = deposited[b]

\* C19: finalizeWithdrawal checks the proof against the one-element list of
\* the handle of the caller's own record: with a proof the oracle signed for any
\* other list of handles (the handle of another record, the caller's handle
\* with a second one, no handle) and the cleartexts that proof attests, the
\* call fails with ProofVerificationFailed and changes nothing; and whenever a
\* call gets past the check the proof is for the caller's handle alone and the
\* amount is the decryption of that handle.
C19_ProofBoundToOwnHandle ==
    [][\A a \in Accounts :
         (hasStake(a) /\ stakes[a].withdrawalRequested
            /\ (Answers("finalizeWithdrawal", a) \/ frames' # frames)) =>
            \A p \in ProofInputs(publiclyDecryptable), c \in CleartextInputs :
               FinalizeWithdrawal(a, c, p) =>
                  IF p.signed /\ p.cleartexts = c
                       /\ p.handles # <<stakes[a].encryptedAmount>>
                  THEN /\ lastCall' = Returned("finalizeWithdrawal", a,
                                               "ProofVerificationFailed", <<>>)
                       /\ UNCHANGED <<ChainState, frames>>
                  ELSE (stakes' # stakes \/ balance' # balance) =>
                          /\ p.handles = <<stakes[a].encryptedAmount>>
                          /\ AbiDecodeUint128(c) =
                                Decrypt(stakes[a].encryptedAmount)
                          /\ balance'[a] = balance[a] + deposited[a]
      ]_vars

\* A finalizeWithdrawal has failed the proof check on a record of the smallest
\* deposit while the handle of the other account's larger deposit is publicly
\* decryptable: the oracle's proofs for that handle, alone and together with
\* the caller's, are among the proofs that fail.
C19_Witness ==
    \E a \in Accounts, b \in Accounts :
        /\ lastCall = Returned("finalizeWithdrawal", a,
                               "ProofVerificationFailed", <<>>)
        /\ hasStake(a) /\ stakes[a].withdrawalRequested
        /\ deposited[a] = 1
        /\ hasStake(b) /\ deposited[b] = MaxUint128
        /\ stakes[b].encryptedAmount \in publiclyDecryptable

\* getStakeSummary(user)
getStakeSummary(user) ==
    LET data == stakes[user]
        unlockTimestamp ==
            IF data.exists THEN data.startTimestamp + data.lockDuration ELSE 0
        encryptedAmount ==
            IF data.exists THEN toBytes32(data.encryptedAmount) ELSE ZeroHandle
    IN [encryptedAmount |-> encryptedAmount,
        startTimestamp |-> IF data.exists THEN data.startTimestamp ELSE 0,
        unlockTimestamp |-> unlockTimestamp,
        lockDuration |-> data.lockDuration,
        withdrawalRequested |-> data.withdrawalRequested,
        exists |-> data.exists]

\* C20: in every reachable state, for every account, hasStake is TRUE exactly
\* when the account has a record, that is when a stake of the account has
\* succeeded and has not been withdrawn since, and then the ledger entry holds
\* that one stake; otherwise the entry is the zero record; and
\* getStakeSummary(a).exists is hasStake(a). The ledger has one entry per
\* account, so an account never has two records.
C20_HasStakeIffRecord ==
    \A a \in Accounts :
        /\ hasStake(a) = (deposited[a] # 0)
        /\ hasStake(a) = getStakeSummary(a).exists
        /\ hasStake(a) => /\ stakes[a].encryptedAmount = asEuint128(deposited[a])
                          /\ stakes[a].lockDuration >= MIN_LOCK_DURATION
                          /\ stakes[a].startTimestamp >= Genesis
        /\ ~hasStake(a) => stakes[a] = NoStake
        /\ DOMAIN stakes = Accounts

\* An account has staked and withdrawn, and has no record, while the other
\* account has one.
C20_Witness ==
    \E a \in Accounts, b \in Accounts :
        /\ ~hasStake(a)
        /\ ~getStakeSummary(a).exists
        /\ \E h \in publiclyDecryptable : <<h, a>> \in allowed
        /\ balance[a] = InitialBalance
        /\ hasStake(b)
        /\ getStakeSummary(b).exists

\* getEncryptedAmount(user)
getEncryptedAmount(user) ==
    LET data == stakes[user]
    IN IF ~data.exists THEN ZeroHandle ELSE toBytes32(data.encryptedAmount)

\* C21: the views are functions of the ledger, defined in every reachable
\* state. For an account with a record getStakeSummary returns the handle of
\* the deposit, the startTimestamp, unlockTimestamp = startTimestamp +
\* lockDuration, the lockDuration, withdrawalRequested and exists = TRUE, and
\* getEncryptedAmount the same handle; for an account without one, an account
\* that has withdrawn included, getStakeSummary returns the zero handle, 0, 0,
\* 0, FALSE and exists = FALSE, and getEncryptedAmount the zero handle.
C21_ViewsProjectTheLedger ==
    \A a \in Accounts :
        /\ hasStake(a) \in BOOLEAN
        /\ IF deposited[a] # 0
           THEN /\ getStakeSummary(a) =
                      [encryptedAmount |-> asEuint128(deposited[a]),
                       startTimestamp |-> stakes[a].startTimestamp,
                       unlockTimestamp |->
                           stakes[a].startTimestamp + stakes[a].lockDuration,
                       lockDuration |-> stakes[a].lockDuration,
                       withdrawalRequested |-> requestedAt[a] # NotRequested,
                       exists |-> TRUE]
                /\ getStakeSummary(a).lockDuration \in DurationInputs
                /\ getStakeSummary(a).startTimestamp \in Times
                /\ getEncryptedAmount(a) = asEuint128(deposited[a])
                /\ hasStake(a)
           ELSE /\ getStakeSummary(a) =
                      [encryptedAmount |-> ZeroHandle, startTimestamp |-> 0,
                       unlockTimestamp |-> 0, lockDuration |-> 0,
                       withdrawalRequested |-> FALSE, exists |-> FALSE]
                /\ getEncryptedAmount(a) = ZeroHandle
                /\ ~hasStake(a)

\* An account has withdrawn its stake as the last call, and a record whose
\* withdrawal is requested is in the ledger.
C21_Witness ==
    \E a \in Accounts, b \in Accounts :
        /\ lastCall.op = "finalizeWithdrawal" /\ lastCall.sender = a
        /\ lastCall.status = "ok"
        /\ frames = <<>>
        /\ ~getStakeSummary(a).exists
        /\ getStakeSummary(b).exists
        /\ getStakeSummary(b).withdrawalRequested
        /\ getStakeSummary(b).unlockTimestamp <= now

\* C22: a successful stake of duration d and deposit v by an account with no
\* record stores exactly the record {handle of v, d, now, withdrawalRequested
\* FALSE}, adds to the access grants those of the handle to the account and to
\* the vault and no other, moves v from the account to the vault, emits the one
\* event StakeCreated(account, v, d, handle) and changes nothing else.
C22_StakeEffects ==
    [][\A a \in Accounts :
         (~hasStake(a) /\ Answers("stake", a) /\ lastCall'.status = "ok") =>
            \A d \in DurationInputs, v \in Values :
               Stake(a, d, v) =>
                  /\ stakes' = [stakes EXCEPT ![a] =
                                  [encryptedAmount |-> asEuint128(v),
                                   lockDuration |-> d,
                                   startTimestamp |-> now,
                                   withdrawalRequested |-> FALSE,
                                   exists |-> TRUE]]
                  /\ allowed' \ allowed \subseteq
                        {<<asEuint128(v), a>>, <<asEuint128(v), Vault>>}
                  /\ {<<asEuint128(v), a>>, <<asEuint128(v), Vault>>}
                        \subseteq allowed'
                  /\ allowed \subseteq allowed'
                  /\ balance' = [balance EXCEPT ![a] = @ - v, ![Vault] = @ + v]
                  /\ lastCall'.logs =
                        <<[name |-> "StakeCreated", user |-> a, amount |-> v,
                           lockDuration |-> d, encryptedAmount |-> asEuint128(v)]>>
                  /\ UNCHANGED <<now, publiclyDecryptable, frames>>
      ]_vars

\* A stake of the largest deposit has just succeeded after the start of the
\* chain, next to the other account's record.
C22_Witness ==
    \E a \in Accounts, b \in Accounts :
        /\ a # b
        /\ lastCall.op = "stake" /\ lastCall.sender = a
        /\ lastCall.status = "ok"
        /\ lastCall.logs[1].amount = MaxUint128
        /\ hasStake(a)
        /\ stakes[a].startTimestamp = now
        /\ now > Genesis
        /\ hasStake(b)

\* C23: requestWithdrawal and finalizeWithdrawal of an account with no record
\* fail with NoActiveStake and change nothing, at any time and for every
\* cleartext and proof; and a finalizeWithdrawal fails on its proof or its
\* cleartext, or makes a transfer, only on a record that exists with
\* withdrawalRequested TRUE.
C23_NoRecordNoVerifier ==
    [][\A a \in Accounts :
         /\ (~hasStake(a) /\ Answers("requestWithdrawal", a)
               /\ RequestWithdrawal(a)) =>
               /\ lastCall' = Returned("requestWithdrawal", a,
                                       "NoActiveStake", <<>>)
               /\ UNCHANGED <<ChainState, frames>>
         /\ (~hasStake(a)
               /\ (Answers("finalizeWithdrawal", a) \/ frames' # frames)) =>
               \/ /\ lastCall' = Returned("finalizeWithdrawal", a,
                                          "NoActiveStake", <<>>)
                  /\ UNCHANGED <<ChainState, frames>>
               \/ \A c \in CleartextInputs,
                     p \in ProofInputs(publiclyDecryptable) :
                     ~FinalizeWithdrawal(a, c, p)
         /\ (\/ /\ Answers("finalizeWithdrawal", a)
                /\ lastCall'.status \notin
                      {"NoActiveStake", "WithdrawalNotRequested"}
             \/ frames' # frames) =>
               \/ hasStake(a) /\ stakes[a].withdrawalRequested
               \/ \A c \in CleartextInputs,
                     p \in ProofInputs(publiclyDecryptable) :
                     ~FinalizeWithdrawal(a, c, p)
      ]_vars

\* An account that has withdrawn before calls finalizeWithdrawal again, later
\* than the start of the chain and while the oracle's proofs exist, and gets
\* NoActiveStake.
C23_Witness ==
    \E a \in Accounts :
        /\ lastCall = Returned("finalizeWithdrawal", a, "NoActiveStake", <<>>)
        /\ ~hasStake(a)
        /\ \E h \in publiclyDecryptable : <<h, a>> \in allowed
        /\ now > Genesis

RECURSIVE LedgerValue(_)
LedgerValue(S) ==
    IF S = {} THEN 0
    ELSE LET a == CHOOSE x \in S : TRUE
         IN (IF stakes[a].exists THEN Decrypt(stakes[a].encryptedAmount) ELSE 0)
               + LedgerValue(S \ {a})

\* C25: in every reachable state, inside a transfer callback too, the value
\* the vault holds is the sum of the amounts of the records in the ledger, each
\* of which is what was deposited for it: every record can be paid in full, and
\* a stake that was paid has no record left to be paid again.
C25_Solvency ==
    /\ balance[Vault] = LedgerValue(Accounts)
    /\ \A a \in Accounts :
          /\ hasStake(a) => /\ Decrypt(stakes[a].encryptedAmount) = deposited[a]
                            /\ balance[Vault] >= deposited[a]
          /\ balance[a] + deposited[a] = InitialBalance
    /\ \A i \in 1..Len(frames) :
          /\ frames[i].amount = frames[i].saved.deposited[frames[i].sender]
          /\ frames[i].amount <= frames[i].saved.balance[Vault]

\* One account has been paid its stake, by a call that has returned, and the
\* vault holds exactly the stake of the other.
C25_Witness ==
    \E a \in Accounts, b \in Accounts :
        /\ lastCall.op = "finalizeWithdrawal" /\ lastCall.sender = a
        /\ lastCall.status = "ok"
        /\ frames = <<>>
        /\ ~hasStake(a)
        /\ balance[a] = InitialBalance
        /\ hasStake(b)
        /\ balance[Vault] = deposited[b]
        /\ deposited[b] = MaxUint128

\* C26: in every reachable state every record with withdrawalRequested TRUE
\* has now >= startTimestamp + lockDuration, the request itself having been
\* made at or after that instant: no record is PendingFinalization while its
\* lock is running.
C26_PendingImpliesUnlocked ==
    \A a \in Accounts :
        (hasStake(a) /\ stakes[a].withdrawalRequested) =>
            /\ now >= stakes[a].startTimestamp + stakes[a].lockDuration
            /\ requestedAt[a] >= stakes[a].startTimestamp + stakes[a].lockDuration
            /\ requestedAt[a] <= now
            /\ Lifecycle(stakes[a]) = "PendingFinalization"

\* A record is PendingFinalization, its withdrawal requested at the very
\* instant its lock ended, next to a record whose lock is still running.
C26_Witness ==
    \E a \in Accounts, b \in Accounts :
        /\ hasStake(a)
        /\ stakes[a].withdrawalRequested
        /\ requestedAt[a] = UnlockTimestamp(stakes[a])
        /\ hasStake(b)
        /\ ~stakes[b].withdrawalRequested
        /\ now < UnlockTimestamp(stakes[b])

\* C27 as claimed: in every reachable state the handle of every record with
\* withdrawalRequested FALSE is not publicly decryptable, also when several
\* accounts, or successive stakes of one account, deposit equal amounts.
C27_AsClaimed ==
    \A a \in Accounts :
        (hasStake(a) /\ ~stakes[a].withdrawalRequested) =>
            stakes[a].encryptedAmount \notin publiclyDecryptable

\* The last instant the clock of the model reaches.
Horizon == Genesis + MaxDays * MIN_LOCK_DURATION

\* Account a has no finalizeWithdrawal suspended in a transfer callback.
NotSuspended(a) == \A i \in 1..Len(frames) : frames[i].sender # a

\* Account a has a record whose lock ends within the time the clock reaches.
Withdrawable(a) == hasStake(a) /\ UnlockTimestamp(stakes[a]) <= Horizon

\* Every such record of account a has been withdrawn: the calls that paid
\* them have returned, the records are gone and nothing of a's is left in the
\* vault but what a has staked since, for longer than the clock reaches.
Withdrawn(a) ==
    /\ NotSuspended(a)
    /\ ~Withdrawable(a)
    /\ balance[a] + deposited[a] = InitialBalance

\* The assumptions of C28: time keeps advancing; each account keeps calling
\* requestWithdrawal, and finalizeWithdrawal with the oracle's proof, so that a
\* call that can succeed again and again is made; and the transfer to a
\* recipient with code is accepted in the end.
Fairness ==
    /\ SF_vars(\E t \in Times : Tick(t))
    /\ \A a \in Accounts :
          /\ SF_vars(RequestWithdrawal(a) /\ stakes'[a] # stakes[a])
          /\ SF_vars(\E c \in CleartextInputs,
                        p \in ProofInputs(publiclyDecryptable) :
                        ValidFinalize(a, c, p))
    /\ SF_vars(ReceiveAccept)

LiveSpec == Init /\ [][Next]_vars /\ Fairness

\* C28: under these assumptions, from every reachable state in which an
\* account has a record whose lock ends within the time the clock reaches, the
\* record is eventually withdrawn and paid: no failed requestWithdrawal or
\* finalizeWithdrawal (LockPeriodActive, a proof that fails, a transfer that is
\* refused) leaves it where it cannot be withdrawn.
C28_EventuallyWithdrawn ==
    \A a \in Accounts : Withdrawable(a) ~> Withdrawn(a)

\* The account with code has been paid by a transfer it accepted, after the
\* lock of its record ended, and holds the whole of its balance again.
C28_Witness ==
    \E a \in Contracts :
        /\ lastCall.op = "finalizeWithdrawal" /\ lastCall.sender = a
        /\ lastCall.status = "ok"
        /\ lastCall.logs[1].amount = MaxUint128
        /\ Withdrawn(a)
        /\ ~hasStake(a)
        /\ now = Horizon

Spec == Init /\ [][Next]_vars
====
